---- MODULE Spec2Model ----
(***************************************************************************)
(* The DOS console of src/components/DOSTerminal.ts as a state machine.    *)
(*                                                                         *)
(* A JavaScript string is a sequence of UTF-16 code units, modelled as a   *)
(* sequence of integers.  Fixed display texts are TLA+ strings, with the   *)
(* escape character written "^[" and the box-drawing characters written    *)
(* in ASCII ("=", "-", "+", "|").  One action handles one onData event to  *)
(* completion, as the single-threaded event loop does.                     *)
(***************************************************************************)
EXTENDS Integers, Sequences, FiniteSets, TLC

VARIABLES currentLine, commandHistory, historyIndex,
          out, screen, calls, lookups, event, submitted, run

vars == <<currentLine, commandHistory, historyIndex,
          out, screen, calls, lookups, event, submitted, run>>

(***************************************************************************)
(* Bounds of the model.                                                    *)
(***************************************************************************)
MaxLine == 2
MaxHist == 2

(***************************************************************************)
(* Character codes and string primitives of the JavaScript runtime.        *)
(***************************************************************************)
CR == 13
BS == 8
DEL == 127
ESC == 27
SPACE == 32

WhiteSpace == {9, 10, 11, 12, 13, 32}

IsSpace(c) == c \in WhiteSpace

UpperChar(c) == IF c >= 97 /\ c <= 122 THEN c - 32 ELSE c

toUpperCase(str) == [i \in 1..Len(str) |-> UpperChar(str[i])]

RECURSIVE TrimStart(_)
TrimStart(str) ==
    IF str # <<>> /\ IsSpace(Head(str)) THEN TrimStart(Tail(str)) ELSE str

RECURSIVE TrimEnd(_)
TrimEnd(str) ==
    IF str # <<>> /\ IsSpace(str[Len(str)])
    THEN TrimEnd(SubSeq(str, 1, Len(str) - 1))
    ELSE str

trim(str) == TrimEnd(TrimStart(str))

\* str.split(/\s+/): the pieces between maximal runs of white space; a leading
\* or trailing run leaves an empty piece, and the empty string gives <<"">>.
RECURSIVE SplitAcc(_, _, _)
SplitAcc(str, cur, acc) ==
    IF str = <<>> THEN Append(acc, cur)
    ELSE IF IsSpace(Head(str))
         THEN SplitAcc(TrimStart(Tail(str)), <<>>, Append(acc, cur))
         ELSE SplitAcc(Tail(str), Append(cur, Head(str)), acc)

split(str) == SplitAcc(str, <<>>, <<>>)

\* str.slice(0, -1)
sliceLast(str) == SubSeq(str, 1, Len(str) - 1)

\* data.charCodeAt(0); NaN (here -1) on the empty string.
charCodeAt0(data) == IF data = <<>> THEN -1 ELSE data[1]

\* data >= ' ': comparison of strings by code units; ' ' is one unit long, so
\* the first unit of data decides, and an equal first unit makes ' ' a prefix.
geSpace(data) == data # <<>> /\ data[1] >= SPACE

(***************************************************************************)
(* The verbs of executeCommand's switch.                                   *)
(***************************************************************************)
V_HELP == <<72, 69, 76, 80>>
V_QMARK == <<63>>
V_LIST == <<76, 73, 83, 84>>
V_DIR == <<68, 73, 82>>
V_READ == <<82, 69, 65, 68>>
V_CLEAR == <<67, 76, 69, 65, 82>>
V_CLS == <<67, 76, 83>>
V_ABOUT == <<65, 66, 79, 85, 84>>
V_EXIT == <<69, 88, 73, 84>>
V_QUIT == <<81, 85, 73, 84>>

SUFFIX_UP == <<91, 65>>
SUFFIX_DOWN == <<91, 66>>
ERASE == <<8, 32, 8>>

(***************************************************************************)
(* The content store.  A body is the text between its line breaks, the     *)
(* line break written "\n".                                                *)
(***************************************************************************)
dosPosts ==
    << [id |-> <<49>>,
        title |-> "Welcome to DOS Terminal",
        date |-> "2026-02-09",
        content |-> << "Welcome to my DOS-style terminal space!", "\n", "\n",
                       "This is a retro-inspired interface built with xterm.js.", "\n",
                       "You can navigate using classic DOS commands.", "\n", "\n",
                       "Available commands:", "\n",
                       "- HELP    - Show available commands", "\n",
                       "- LIST    - List all entries", "\n",
                       "- READ <id> - Read a specific entry", "\n",
                       "- CLEAR   - Clear the terminal", "\n",
                       "- ABOUT   - About this terminal", "\n",
                       "- EXIT    - Exit (just refresh the page)", "\n", "\n",
                       "Enjoy your stay in the terminal!" >>,
        tags |-> <<"welcome", "intro">>],
       [id |-> <<50>>,
        title |-> "Building a DOS Terminal",
        date |-> "2026-02-09",
        content |-> << "I've always been fascinated by retro computing and terminal interfaces.", "\n",
                       "There's something beautiful about the simplicity and directness of command-line interfaces.", "\n", "\n",
                       "This experience is built using:", "\n",
                       "- xterm.js for the terminal emulator", "\n",
                       "- TypeScript for type safety", "\n",
                       "- Astro for the framework", "\n", "\n",
                       "The DOS aesthetic brings back memories of simpler times when computing was more direct and less cluttered." >>,
        tags |-> <<"tech", "retro", "xterm">>],
       [id |-> <<51>>,
        title |-> "The Art of Minimalism",
        date |-> "2026-02-08",
        content |-> << "Minimalism in design isn't about removing everything.", "\n",
                       "It's about keeping only what's essential.", "\n", "\n",
                       "In terminal interfaces, every character matters.", "\n",
                       "Every command serves a purpose.", "\n",
                       "There's no room for unnecessary decoration.", "\n", "\n",
                       "This philosophy extends beyond code to life itself." >>,
        tags |-> <<"philosophy", "design", "minimalism">>] >>

\* content.split('\n'): the lines of a body, each the text pieces it holds.
RECURSIVE SplitLinesAcc(_, _, _)
SplitLinesAcc(content, cur, acc) ==
    IF content = <<>> THEN Append(acc, cur)
    ELSE IF Head(content) = "\n"
         THEN SplitLinesAcc(Tail(content), <<>>, Append(acc, cur))
         ELSE SplitLinesAcc(Tail(content), Append(cur, Head(content)), acc)

splitLines(content) == SplitLinesAcc(content, <<>>, <<>>)

\* tags.map(t => pre + t + post).join(' ')
RECURSIVE joinTags(_, _, _)
joinTags(tags, pre, post) ==
    IF tags = <<>> THEN <<>>
    ELSE <<pre, Head(tags)>> \o post
         \o (IF Len(tags) > 1 THEN <<" ">> ELSE <<>>)
         \o joinTags(Tail(tags), pre, post)

\* dosPosts.find(p => p.id === id): the first match, or none.
find(id) ==
    LET hits == {i \in 1..Len(dosPosts) : dosPosts[i].id = id}
    IN IF hits = {} THEN <<>>
       ELSE <<dosPosts[CHOOSE i \in hits : \A j \in hits : i <= j]>>

(***************************************************************************)
(* The terminal.  A console state s is a record of the object's fields     *)
(* (currentLine, commandHistory, historyIndex) and of what the event under *)
(* way has done so far: out, the writes to the terminal in order; screen,  *)
(* the characters shown on the input line after the last prompt; calls,    *)
(* the commands handed to executeCommand; lookups, the ids looked up.      *)
(*                                                                         *)
(* A write is [op, text, arg]: text the pieces of fixed text in order and  *)
(* arg the string put in place of the piece "${}".                         *)
(***************************************************************************)
Item(op, text, arg) == [op |-> op, text |-> text, arg |-> arg]

\* What a write shows on the input line: a '\b \b' rubs out the last
\* character shown, any other text is added at the end.
show(line, data) ==
    IF data = ERASE
    THEN (IF line = <<>> THEN line ELSE sliceLast(line))
    ELSE line \o data

write(s, data) ==
    [s EXCEPT !.out = Append(@, Item("write", <<"${}">>, data)),
              !.screen = show(@, data)]

writeln(s, text, arg) ==
    [s EXCEPT !.out = Append(@, Item("writeln", text, arg)),
              !.screen = <<>>]

RECURSIVE writelns(_, _)
writelns(s, texts) ==
    IF texts = <<>> THEN s
    ELSE writelns(writeln(s, Head(texts), <<>>), Tail(texts))

clear(s) ==
    [s EXCEPT !.out = Append(@, Item("clear", <<>>, <<>>)),
              !.screen = <<>>]

PROMPT == Item("write", <<"^[[32mC:\\DOS>^[[0m ">>, <<>>)

printPrompt(s) ==
    [s EXCEPT !.out = Append(@, PROMPT), !.screen = <<>>]

RULE == <<"^[[33m===========================================================^[[0m">>
THIN == <<"^[[33m-----------------------------------------------------------^[[0m">>

printWelcome(s) ==
    writelns(s, << <<"^[[32m+===========================================================+^[[0m">>,
                   <<"^[[32m|                                                           |^[[0m">>,
                   <<"^[[32m|                DOS TERMINAL INTERFACE v1.0                |^[[0m">>,
                   <<"^[[32m|                                                           |^[[0m">>,
                   <<"^[[32m+===========================================================+^[[0m">>,
                   <<>>,
                   <<"^[[33mType HELP for available commands.^[[0m">>,
                   <<>> >>)

(***************************************************************************)
(* The commands.                                                           *)
(***************************************************************************)
showHelp(s) ==
    writelns(s, << <<>>,
                   RULE,
                   <<"^[[33m                    AVAILABLE COMMANDS^[[0m">>,
                   RULE,
                   <<>>,
                   <<"  ^[[32mHELP^[[0m     - Display this help message">>,
                   <<"  ^[[32mLIST^[[0m     - List all entries">>,
                   <<"  ^[[32mREAD <id>^[[0m - Read a specific entry">>,
                   <<"  ^[[32mCLEAR^[[0m    - Clear the terminal screen">>,
                   <<"  ^[[32mABOUT^[[0m    - Show information about this terminal">>,
                   <<"  ^[[32mEXIT^[[0m     - Exit (refresh page)">>,
                   <<>> >>)

\* The body of listEntries' forEach, for one entry.
listEntry(s, entry) ==
    LET s1 == writeln(s, <<"  ^[[32m[", "${}", "]^[[0m ^[[36m", entry.title, "^[[0m">>,
                      entry.id)
        s2 == writeln(s1, <<"      Date: ^[[33m", entry.date, "^[[0m  Tags: ">>
                          \o joinTags(entry.tags, "^[[35m#", <<"^[[0m">>), <<>>)
    IN writeln(s2, <<>>, <<>>)

RECURSIVE listFrom(_, _)
listFrom(s, i) ==
    IF i > Len(dosPosts) THEN s ELSE listFrom(listEntry(s, dosPosts[i]), i + 1)

\* Mutant: the total counts the history, not the store.
listEntriesHistoryTotal(s) ==
    LET s1 == writelns(s, << <<>>, RULE,
                             <<"^[[33m                        ENTRIES^[[0m">>,
                             RULE, <<>> >>)
        s2 == listFrom(s1, 1)
        s3 == writeln(s2, <<"Total: ", "${dosPosts.length}", " entr(y/ies)">>,
                      <<Len(s.commandHistory)>>)
    IN writeln(s3, <<>>, <<>>)

listEntries(s) ==
    LET s1 == writelns(s, << <<>>, RULE,
                             <<"^[[33m                        ENTRIES^[[0m">>,
                             RULE, <<>> >>)
        s2 == listFrom(s1, 1)
        s3 == writeln(s2, <<"Total: ", "${dosPosts.length}", " entr(y/ies)">>,
                      <<Len(dosPosts)>>)
    IN writeln(s3, <<>>, <<>>)

\* Mutant: empty lines of the body are skipped.
RECURSIVE writeBodySkipEmpty(_, _)
writeBodySkipEmpty(s, lines) ==
    IF lines = <<>> THEN s
    ELSE IF Head(lines) = <<>> THEN writeBodySkipEmpty(s, Tail(lines))
    ELSE writeBodySkipEmpty(writeln(s, <<"  ">> \o Head(lines), <<>>), Tail(lines))

RECURSIVE writeBody(_, _)
writeBody(s, lines) ==
    IF lines = <<>> THEN s
    ELSE writeBody(writeln(s, <<"  ">> \o Head(lines), <<>>), Tail(lines))

readEntry(s, id) ==
    LET s0 == [s EXCEPT !.lookups = Append(@, id)]
        hit == find(id)
    IN IF hit = <<>>
       THEN writeln(writeln(s0, <<"^[[31mEntry not found: ", "${}", "^[[0m">>, id),
                    <<"Use LIST to see available entries.">>, <<>>)
       ELSE LET entry == hit[1]
                s1 == writelns(s0, << <<>>, RULE,
                                      <<"^[[36m", entry.title, "^[[0m">>,
                                      RULE, <<>>,
                                      <<"^[[33mDate:^[[0m ", entry.date>>,
                                      <<"^[[33mTags:^[[0m ">>
                                          \o joinTags(entry.tags, "#", <<>>),
                                      <<>>, THIN, <<>> >>)
                s2 == writeBody(s1, splitLines(entry.content))
            IN writelns(s2, << <<>>, THIN, <<>> >>)

\* Mutant: clearing re-runs the whole of init(), prompt included.
clearTerminalInit(s) == printPrompt(printWelcome(clear(s)))

clearTerminal(s) == printWelcome(clear(s))

showAbout(s) ==
    writelns(s, << <<>>,
                   RULE,
                   <<"^[[33m                         ABOUT^[[0m">>,
                   RULE,
                   <<>>,
                   <<"  A retro-inspired DOS terminal experience built with:">>,
                   <<"  - xterm.js terminal emulator">>,
                   <<"  - TypeScript">>,
                   <<"  - Astro framework">>,
                   <<>>,
                   <<"  Experience the nostalgia of DOS-era computing">>,
                   <<"  with a modern twist.">>,
                   <<>>,
                   <<"  Type HELP for available commands.">>,
                   <<>> >>)

\* Mutant: the error names the whole command line, not the verb.
executeCommandNameLine(s, command) ==
    LET parts == split(command)
        cmd == parts[1]
        args == Tail(parts)
        s0 == [s EXCEPT !.calls = Append(@, [command |-> command, cmd |-> cmd,
                                             args |-> args])]
    IN CASE cmd \in {V_HELP, V_QMARK} -> showHelp(s0)
         [] cmd \in {V_LIST, V_DIR} -> listEntries(s0)
         [] cmd = V_READ ->
                IF Len(args) > 0
                THEN readEntry(s0, args[1])
                ELSE writelns(s0, << <<"^[[31mError: Please specify an entry ID.^[[0m">>,
                                     <<"Usage: READ <id>">> >>)
         [] cmd \in {V_CLEAR, V_CLS} -> clearTerminal(s0)
         [] cmd = V_ABOUT -> showAbout(s0)
         [] cmd \in {V_EXIT, V_QUIT} ->
                writeln(s0, <<"^[[33mTo exit, please refresh the page.^[[0m">>, <<>>)
         [] cmd = <<>> -> s0
         [] OTHER ->
                writeln(writeln(s0, <<"^[[31mBad command or file name: ", "${}", "^[[0m">>,
                                command),
                        <<"Type HELP for available commands.">>, <<>>)

executeCommand(s, command) ==
    LET parts == split(command)
        cmd == parts[1]
        args == Tail(parts)
        s0 == [s EXCEPT !.calls = Append(@, [command |-> command, cmd |-> cmd,
                                             args |-> args])]
    IN CASE cmd \in {V_HELP, V_QMARK} -> showHelp(s0)
         [] cmd \in {V_LIST, V_DIR} -> listEntries(s0)
         [] cmd = V_READ ->
                IF Len(args) > 0
                THEN readEntry(s0, args[1])
                ELSE writelns(s0, << <<"^[[31mError: Please specify an entry ID.^[[0m">>,
                                     <<"Usage: READ <id>">> >>)
         [] cmd \in {V_CLEAR, V_CLS} -> clearTerminal(s0)
         [] cmd = V_ABOUT -> showAbout(s0)
         [] cmd \in {V_EXIT, V_QUIT} ->
                writeln(s0, <<"^[[33mTo exit, please refresh the page.^[[0m">>, <<>>)
         [] cmd = <<>> -> s0
         [] OTHER ->
                writeln(writeln(s0, <<"^[[31mBad command or file name: ", "${}", "^[[0m">>,
                                cmd),
                        <<"Type HELP for available commands.">>, <<>>)

(***************************************************************************)
(* The line editor.                                                        *)
(***************************************************************************)
\* Mutant: the raw line buffer is pushed, not its trimmed form.
handleEnterRaw(s) ==
    LET s1 == writeln(s, <<>>, <<>>)
        command == toUpperCase(trim(s1.currentLine))
        s2 == IF command # <<>>
              THEN LET pushed == Append(s1.commandHistory, s1.currentLine)
                   IN executeCommand([s1 EXCEPT !.commandHistory = pushed,
                                                !.historyIndex = Len(pushed)],
                                     command)
              ELSE s1
    IN printPrompt([s2 EXCEPT !.currentLine = <<>>])

\* Mutant: the test for an empty command is made on the untrimmed buffer.
handleEnterUntrimmedTest(s) ==
    LET s1 == writeln(s, <<>>, <<>>)
        command == toUpperCase(trim(s1.currentLine))
        s2 == IF s1.currentLine # <<>>
              THEN LET pushed == Append(s1.commandHistory, trim(s1.currentLine))
                   IN executeCommand([s1 EXCEPT !.commandHistory = pushed,
                                                !.historyIndex = Len(pushed)],
                                     command)
              ELSE s1
    IN printPrompt([s2 EXCEPT !.currentLine = <<>>])

\* Mutant: the upper-cased command is pushed onto the history.
handleEnterUpper(s) ==
    LET s1 == writeln(s, <<>>, <<>>)
        command == toUpperCase(trim(s1.currentLine))
        s2 == IF command # <<>>
              THEN LET pushed == Append(s1.commandHistory, command)
                   IN executeCommand([s1 EXCEPT !.commandHistory = pushed,
                                                !.historyIndex = Len(pushed)],
                                     command)
              ELSE s1
    IN printPrompt([s2 EXCEPT !.currentLine = <<>>])

\* Mutant: the command is dispatched in the case it was typed.
handleEnterNoUpper(s) ==
    LET s1 == writeln(s, <<>>, <<>>)
        command == trim(s1.currentLine)
        s2 == IF command # <<>>
              THEN LET pushed == Append(s1.commandHistory, trim(s1.currentLine))
                   IN executeCommand([s1 EXCEPT !.commandHistory = pushed,
                                                !.historyIndex = Len(pushed)],
                                     command)
              ELSE s1
    IN printPrompt([s2 EXCEPT !.currentLine = <<>>])

\* Mutant: the command is upper-cased but not trimmed.
handleEnterNoTrim(s) ==
    LET s1 == writeln(s, <<>>, <<>>)
        command == toUpperCase(s1.currentLine)
        s2 == IF command # <<>>
              THEN LET pushed == Append(s1.commandHistory, trim(s1.currentLine))
                   IN executeCommand([s1 EXCEPT !.commandHistory = pushed,
                                                !.historyIndex = Len(pushed)],
                                     command)
              ELSE s1
    IN printPrompt([s2 EXCEPT !.currentLine = <<>>])

handleEnter(s) ==
    LET s1 == writeln(s, <<>>, <<>>)
        command == toUpperCase(trim(s1.currentLine))
        s2 == IF command # <<>>
              THEN LET pushed == Append(s1.commandHistory, trim(s1.currentLine))
                   IN executeCommand([s1 EXCEPT !.commandHistory = pushed,
                                                !.historyIndex = Len(pushed)],
                                     command)
              ELSE s1
    IN printPrompt([s2 EXCEPT !.currentLine = <<>>])

\* Mutant: erasing in a recalled line also edits the entry it came from.
handleBackspaceAlias(s) ==
    IF Len(s.currentLine) > 0
    THEN LET i == s.historyIndex + 1
             h == IF i \in 1..Len(s.commandHistory)
                  THEN [s.commandHistory EXCEPT ![i] = sliceLast(s.currentLine)]
                  ELSE s.commandHistory
         IN write([s EXCEPT !.currentLine = sliceLast(@), !.commandHistory = h],
                  ERASE)
    ELSE s

\* Mutant: the erasure is written whether or not the buffer is empty.
handleBackspaceNoGuard(s) ==
    write([s EXCEPT !.currentLine = IF @ = <<>> THEN @ ELSE sliceLast(@)], ERASE)

handleBackspace(s) ==
    IF Len(s.currentLine) > 0
    THEN write([s EXCEPT !.currentLine = sliceLast(@)], ERASE)
    ELSE s

RECURSIVE eraseTimes(_, _)
eraseTimes(s, n) == IF n = 0 THEN s ELSE eraseTimes(write(s, ERASE), n - 1)

\* Mutant: the loop stops one character short.
clearCurrentLineShort(s) ==
    eraseTimes(s, IF Len(s.currentLine) > 0 THEN Len(s.currentLine) - 1 ELSE 0)

clearCurrentLine(s) == eraseTimes(s, Len(s.currentLine))

\* Mutant: recall wraps from the oldest entry round to the newest.
handleArrowUpWrap(s) ==
    IF s.historyIndex > 0 \/ (s.historyIndex = 0 /\ Len(s.commandHistory) > 0)
    THEN LET i == IF s.historyIndex > 0 THEN s.historyIndex - 1
                  ELSE Len(s.commandHistory) - 1
             s1 == clearCurrentLine([s EXCEPT !.historyIndex = i])
             s2 == [s1 EXCEPT !.currentLine = s1.commandHistory[i + 1]]
         IN write(s2, s2.currentLine)
    ELSE s

handleArrowUp(s) ==
    IF s.historyIndex > 0
    THEN LET s1 == clearCurrentLine([s EXCEPT !.historyIndex = @ - 1])
             \* commandHistory is 0-based in the source, 1-based here
             s2 == [s1 EXCEPT !.currentLine = s1.commandHistory[s1.historyIndex + 1]]
         IN write(s2, s2.currentLine)
    ELSE s

\* Mutant: the cursor is not advanced before the entry is loaded.
handleArrowDownNoStep(s) ==
    IF s.historyIndex < Len(s.commandHistory) - 1
    THEN LET s1 == clearCurrentLine(s)
             s2 == [s1 EXCEPT !.currentLine = s1.commandHistory[s1.historyIndex + 1]]
         IN write(s2, s2.currentLine)
    ELSE LET s1 == clearCurrentLine([s EXCEPT !.historyIndex = Len(s.commandHistory)])
         IN [s1 EXCEPT !.currentLine = <<>>]

handleArrowDown(s) ==
    IF s.historyIndex < Len(s.commandHistory) - 1
    THEN LET s1 == clearCurrentLine([s EXCEPT !.historyIndex = @ + 1])
             s2 == [s1 EXCEPT !.currentLine = s1.commandHistory[s1.historyIndex + 1]]
         IN write(s2, s2.currentLine)
    ELSE LET s1 == clearCurrentLine([s EXCEPT !.historyIndex = Len(s.commandHistory)])
         IN [s1 EXCEPT !.currentLine = <<>>]

\* Mutant: a printable payload replaces the line buffer (= for +=).
onDataAssign(s, data) ==
    LET code == charCodeAt0(data)
    IN IF code = CR THEN handleEnter(s)
       ELSE IF code = DEL \/ code = BS THEN handleBackspace(s)
       ELSE IF code = ESC
            THEN LET rest == Tail(data)
                 IN IF rest = SUFFIX_UP THEN handleArrowUp(s)
                    ELSE IF rest = SUFFIX_DOWN THEN handleArrowDown(s)
                    ELSE s
       ELSE IF geSpace(data)
            THEN write([s EXCEPT !.currentLine = data], data)
       ELSE s

\* Mutant: the last branch is a plain else, without the test data >= ' '.
onDataNoPrintableTest(s, data) ==
    LET code == charCodeAt0(data)
    IN IF code = CR THEN handleEnter(s)
       ELSE IF code = DEL \/ code = BS THEN handleBackspace(s)
       ELSE IF code = ESC
            THEN LET rest == Tail(data)
                 IN IF rest = SUFFIX_UP THEN handleArrowUp(s)
                    ELSE IF rest = SUFFIX_DOWN THEN handleArrowDown(s)
                    ELSE s
       ELSE write([s EXCEPT !.currentLine = @ \o data], data)

\* The listener setupInput registers with terminal.onData.
onData(s, data) ==
    LET code == charCodeAt0(data)
    IN IF code = CR THEN handleEnter(s)
       ELSE IF code = DEL \/ code = BS THEN handleBackspace(s)
       ELSE IF code = ESC
            THEN LET rest == Tail(data)
                 IN IF rest = SUFFIX_UP THEN handleArrowUp(s)
                    ELSE IF rest = SUFFIX_DOWN THEN handleArrowDown(s)
                    ELSE s
       ELSE IF geSpace(data)
            THEN write([s EXCEPT !.currentLine = @ \o data], data)
       ELSE s

(***************************************************************************)
(* The state machine.  Beside the console's fields, the state records what *)
(* an observer of the console has seen:                                    *)
(*   out, calls, lookups  what the last event did;                         *)
(*   event      the payload of the last event (<<>> before the first);     *)
(*   submitted  the line buffer a submission took, while that submission   *)
(*              is the last event or the one before it (<<>> otherwise);   *)
(*   run        the typing under way since the last event that was not a   *)
(*              printable one: from, the line buffer when it began; typed, *)
(*              the payloads since, in order; echoed, the text written to  *)
(*              the terminal since, in order.                              *)
(***************************************************************************)
Fields(line, hist, idx, shown) ==
    [currentLine |-> line, commandHistory |-> hist, historyIndex |-> idx,
     out |-> <<>>, screen |-> shown, calls |-> <<>>, lookups |-> <<>>]

\* new DOSTerminal(container): the field initialisers, then init().
Constructed == printPrompt(printWelcome(Fields(<<>>, <<>>, -1, <<>>)))

Init ==
    /\ currentLine = Constructed.currentLine
    /\ commandHistory = Constructed.commandHistory
    /\ historyIndex = Constructed.historyIndex
    /\ out = Constructed.out
    /\ screen = Constructed.screen
    /\ calls = <<>>
    /\ lookups = <<>>
    /\ event = <<>>
    /\ submitted = <<>>
    /\ run = [from |-> <<>>, typed |-> <<>>, echoed |-> <<>>]

\* The text an event's writes sent to the terminal, in order.
RECURSIVE written(_)
written(o) ==
    IF o = <<>> THEN <<>>
    ELSE (IF Head(o).op = "write" /\ Head(o) # PROMPT THEN Head(o).arg ELSE <<>>)
         \o written(Tail(o))

\* A printable event: not a submission, an erasure or an escape, and at or
\* above the space character.
Printable(data) ==
    /\ charCodeAt0(data) \notin {CR, DEL, BS, ESC}
    /\ geSpace(data)

\* One event of terminal.onData, handled to completion.
OnData(data) ==
    LET s == onData(Fields(currentLine, commandHistory, historyIndex, screen), data)
    IN /\ currentLine' = s.currentLine
       /\ commandHistory' = s.commandHistory
       /\ historyIndex' = s.historyIndex
       /\ out' = s.out
       /\ screen' = s.screen
       /\ calls' = s.calls
       /\ lookups' = s.lookups
       /\ submitted' = IF charCodeAt0(data) = CR THEN currentLine
                       ELSE IF event = <<CR>> THEN submitted
                       ELSE <<>>
       /\ run' = IF Printable(data)
                 THEN [run EXCEPT !.typed = @ \o data,
                                  !.echoed = @ \o written(s.out)]
                 ELSE [from |-> s.currentLine, typed |-> <<>>, echoed |-> <<>>]

\* The keys of the keyboard model: a letter and the space bar.
Keys == {97, SPACE}

\* Payloads the listener ignores: a bare escape, an escape with another
\* suffix (cursor right), a control code below 32 (tab).
IgnoredData == {<<ESC>>, <<ESC, 91, 67>>, <<9>>}

\* Command lines pasted whole at a fresh prompt.
Commands ==
    { <<63>>,                              \* ?
      <<108, 105, 115, 116>>,              \* list
      <<99, 108, 115>>,                    \* cls
      <<102, 111, 111>>,                   \* foo
      <<114, 101, 97, 100>>,               \* read
      <<114, 101, 97, 100, 32, 49>>,       \* read 1
      <<82, 101, 97, 100, 32, 32, 97>>,    \* Read  a
      <<82, 69, 65, 68, 32, 51>>,          \* READ 3
      <<114, 101, 97, 100, 32, 32>>,       \* read, then two spaces
      <<102, 111, 111, 32, 49>>,           \* foo 1
      <<32, 32>> }                         \* two spaces

Blank(line) == trim(line) = <<>>

UP == <<ESC>> \o SUFFIX_UP
DOWN == <<ESC>> \o SUFFIX_DOWN

TypeChar ==
    \E c \in Keys :
        /\ Len(currentLine) < MaxLine
        /\ event' = <<c>>
        /\ OnData(<<c>>)

Enter ==
    /\ Blank(currentLine) \/ Len(commandHistory) < MaxHist
    /\ event' = <<CR>>
    /\ OnData(<<CR>>)

Backspace ==
    \E c \in {DEL, BS} :
        /\ event' = <<c>>
        /\ OnData(<<c>>)

ArrowUp ==
    /\ event' = UP
    /\ OnData(UP)

ArrowDown ==
    /\ event' = DOWN
    /\ OnData(DOWN)

Ignored ==
    \E data \in IgnoredData :
        /\ event' = data
        /\ OnData(data)

PasteCommand ==
    \E data \in Commands :
        /\ currentLine = <<>>
        /\ event' = data
        /\ OnData(data)

Next == TypeChar \/ Enter \/ Backspace \/ ArrowUp \/ ArrowDown \/ Ignored

Spec == Init /\ [][Next]_vars

NextCmd == PasteCommand \/ Enter \/ ArrowUp \/ ArrowDown

SpecCmd == Init /\ [][NextCmd]_vars

(***************************************************************************)
(* The console driven by command lines in every spelling of the verbs.     *)
(***************************************************************************)
MaxSubmit == 1

LowerChar(c) == IF c >= 65 /\ c <= 90 THEN c + 32 ELSE c

toLowerCase(str) == [i \in 1..Len(str) |-> LowerChar(str[i])]

\* Every spelling of a verb in upper and lower case letters.
RECURSIVE Spellings(_)
Spellings(verb) ==
    IF verb = <<>> THEN {<<>>}
    ELSE {<<c>> \o rest : c \in {Head(verb), LowerChar(Head(verb))},
                          rest \in Spellings(Tail(verb))}

\* The verbs and aliases executeCommand's switch knows.
Registry ==
    {V_HELP, V_QMARK, V_LIST, V_DIR, V_READ, V_CLEAR, V_CLS, V_ABOUT, V_EXIT,
     V_QUIT}

\* Arguments: a, A and 1, each after one space.
VerbArgs == {<<SPACE, 97>>, <<SPACE, 65>>, <<SPACE, 49>>}

VerbLines ==
    UNION {Spellings(v) : v \in Registry}
    \cup {toLowerCase(v) \o a : v \in Registry, a \in VerbArgs}

PasteVerb ==
    \E data \in VerbLines :
        /\ currentLine = <<>>
        /\ Len(commandHistory) < MaxSubmit
        /\ event' = data
        /\ OnData(data)

NextVerb == PasteVerb \/ Enter

SpecVerb == Init /\ [][NextVerb]_vars

(***************************************************************************)
(* The console fed payloads of several characters, as a paste delivers     *)
(* them: the listener looks at the first code unit and compares the whole  *)
(* payload with ' '.                                                       *)
(***************************************************************************)
\* a; a and a carriage return; a, a carriage return and a.
RawData == {<<97>>, <<97, CR>>, <<97, CR, 97>>}

PasteRaw ==
    \E data \in RawData :
        /\ Len(currentLine) < MaxLine
        /\ event' = data
        /\ OnData(data)

NextRaw == PasteRaw \/ Enter \/ Backspace \/ ArrowUp \/ ArrowDown

SpecRaw == Init /\ [][NextRaw]_vars

(***************************************************************************)
(* The claims.                                                             *)
(***************************************************************************)
IsPrefix(a, b) == Len(a) <= Len(b) /\ SubSeq(b, 1, Len(a)) = a

Last(o) == o[Len(o)]

NEWLINE == Item("writeln", <<>>, <<>>)

\* C1: in every reachable state, the initial one included, the history
\* cursor is an integer in 0..length, length the number of history entries.
C1_CursorInRange == historyIndex \in 0..Len(commandHistory)

\* C2: after any sequence of events the characters shown on the input line
\* after the last prompt are exactly the line buffer's, in order.
C2_ScreenShowsBuffer == screen = currentLine

\* A history-next past the newest entry has rubbed a shown line out.
C2_Witness ==
    /\ event = DOWN
    /\ out # <<>>
    /\ currentLine = <<>>
    /\ historyIndex = Len(commandHistory)

\* C3, as stated: submitting a non-empty line L and then issuing
\* history-previous once leaves the line buffer equal to L.
C3_RoundTripExact ==
    [][(event = <<CR>> /\ submitted # <<>> /\ event' = UP)
         => currentLine' = submitted]_vars

\* C3, amended: submitting a line L that holds a character other than white
\* space and then issuing history-previous once leaves the line buffer equal
\* to L without its leading and trailing white space.
C3_RoundTripTrimmed ==
    [][(event = <<CR>> /\ ~Blank(submitted) /\ event' = UP)
         => currentLine' = trim(submitted)]_vars

\* A padded line was submitted and then recalled.
C3_Witness ==
    /\ event = UP
    /\ ~Blank(submitted)
    /\ submitted # trim(submitted)
    /\ currentLine = trim(submitted)

\* C4: the argument tokens handed to the dispatcher have exactly the case
\* the user typed.
C4_ArgumentsAsTyped ==
    (event = <<CR>> /\ calls # <<>>)
        => calls[1].args = Tail(split(trim(submitted)))

\* C5: submitting an empty or white-space-only line buffer never appends to
\* the history, never moves the cursor, never invokes the dispatcher, and
\* clears the buffer and writes the prompt.
C5_BlankSubmission ==
    [][(event' = <<CR>> /\ Blank(currentLine))
         => /\ commandHistory' = commandHistory
            /\ historyIndex' = historyIndex
            /\ calls' = <<>>
            /\ currentLine' = <<>>
            /\ out' = <<NEWLINE, PROMPT>>]_vars

\* A line of white space only has been submitted, with an entry recalled.
C5_Witness ==
    /\ event = <<CR>>
    /\ submitted # <<>>
    /\ Blank(submitted)
    /\ commandHistory # <<>>
    /\ historyIndex < Len(commandHistory)

\* C6: history-previous with the cursor at 0 leaves buffer and cursor as they
\* are; history-next with the cursor at length leaves the buffer empty and
\* the cursor at length.
C6_BoundaryIdempotent ==
    [][/\ (event' = UP /\ historyIndex = 0)
            => /\ currentLine' = currentLine
               /\ historyIndex' = 0
               /\ commandHistory' = commandHistory
       /\ (event' = DOWN /\ historyIndex = Len(commandHistory))
            => /\ currentLine' = <<>>
               /\ historyIndex' = Len(commandHistory)
               /\ commandHistory' = commandHistory]_vars

\* A history-previous that did nothing, at the oldest of two entries.
C6_Witness ==
    /\ event = UP
    /\ out = <<>>
    /\ historyIndex = 0
    /\ Len(commandHistory) = 2
    /\ currentLine = commandHistory[1]

\* C7: a non-blank submission appends exactly one entry, the trimmed buffer
\* in the case it was typed, and sets the cursor to the new length.
C7_SubmissionAppends ==
    [][(event' = <<CR>> /\ ~Blank(currentLine))
         => /\ commandHistory' = Append(commandHistory, trim(currentLine))
            /\ historyIndex' = Len(commandHistory) + 1]_vars

\* A padded lower-case line was submitted as the second entry.
C7_Witness ==
    /\ event = <<CR>>
    /\ submitted = <<SPACE, 97>>
    /\ commandHistory = << <<97>>, <<97>> >>
    /\ historyIndex = 2

\* C8: across any event the history before is a prefix of the history
\* after, and only a submission changes the history.
C8_AppendOnly ==
    [][/\ IsPrefix(commandHistory, commandHistory')
       /\ commandHistory' # commandHistory => event' = <<CR>>]_vars

\* A recalled line has been edited.
C8_Witness ==
    /\ event \in {<<BS>>, <<DEL>>}
    /\ out # <<>>
    /\ historyIndex + 1 \in 1..Len(commandHistory)
    /\ currentLine = sliceLast(commandHistory[historyIndex + 1])

\* C9: every submission ends with the line buffer empty and with exactly one
\* prompt written, as the last write of the event.
C9_PromptLast ==
    event = <<CR>>
        => /\ currentLine = <<>>
           /\ out # <<>>
           /\ Last(out) = PROMPT
           /\ Cardinality({i \in 1..Len(out) : out[i] = PROMPT}) = 1

\* A READ of an id the store does not hold has been submitted.
C9_Witness ==
    /\ event = <<CR>>
    /\ lookups # <<>>
    /\ find(lookups[1]) = <<>>
    /\ Len(out) > 2

\* C10: over a run of printable events from an empty buffer, the line buffer
\* is the concatenation of the characters and the display was sent the same.
C10_EchoMatches ==
    run.from = <<>> => (currentLine = run.typed /\ run.echoed = run.typed)

\* Two characters typed in a row from an empty buffer.
C10_Witness ==
    /\ run.from = <<>>
    /\ Len(run.typed) = 2
    /\ run.typed[1] # run.typed[2]


\* C11: an erase event (127 or 8) on an empty buffer changes nothing and
\* writes nothing; on a non-empty buffer it removes exactly the last
\* character and writes exactly one erasure; history and cursor stay.
C11_Erase ==
    [][event' \in {<<DEL>>, <<BS>>}
         => /\ commandHistory' = commandHistory
            /\ historyIndex' = historyIndex
            /\ IF currentLine = <<>>
               THEN currentLine' = <<>> /\ out' = <<>> /\ screen' = screen
               ELSE /\ currentLine' = SubSeq(currentLine, 1, Len(currentLine) - 1)
                    /\ out' = <<Item("write", <<"${}">>, ERASE)>>]_vars

\* An erase event found the buffer empty, with the history not empty.
C11_Witness ==
    /\ event \in {<<DEL>>, <<BS>>}
    /\ out = <<>>
    /\ currentLine = <<>>
    /\ commandHistory # <<>>

\* C12: an escape with no suffix or with a suffix other than '[A' and '[B',
\* and any other code below 32 that is not 13 or 8, leaves the line buffer,
\* the history and the cursor as they are and writes nothing.
C12_Ignored ==
    [][(/\ charCodeAt0(event') < SPACE
        /\ charCodeAt0(event') \notin {CR, BS}
        /\ event' \notin {UP, DOWN})
         => /\ currentLine' = currentLine
            /\ commandHistory' = commandHistory
            /\ historyIndex' = historyIndex
            /\ out' = <<>>
            /\ screen' = screen]_vars

\* A tab arrived while a recalled line was in the buffer.
C12_Witness ==
    /\ event = <<9>>
    /\ currentLine # <<>>
    /\ historyIndex < Len(commandHistory)
    /\ commandHistory # <<>>


\* The first token of a line as typed: what stands before the first white
\* space, leading white space apart.
RECURSIVE UpToSpace(_)
UpToSpace(str) ==
    IF str = <<>> \/ IsSpace(Head(str)) THEN <<>>
    ELSE <<Head(str)>> \o UpToSpace(Tail(str))

VerbTyped(line) == UpToSpace(TrimStart(line))

\* What follows the first token of a line as typed.
RestTyped(line) ==
    SubSeq(TrimStart(line), Len(VerbTyped(line)) + 1, Len(TrimStart(line)))

BadCommand(verb) ==
    << Item("writeln", <<"^[[31mBad command or file name: ", "${}", "^[[0m">>, verb),
       Item("writeln", <<"Type HELP for available commands.">>, <<>>) >>

\* C13: submitting a line whose verb is not in the registry renders exactly
\* one bad-command error, naming the verb (with the hint to use HELP that
\* belongs to it), and the dispatcher writes nothing else.
C13_BadCommand ==
    (/\ event = <<CR>>
     /\ ~Blank(submitted)
     /\ toUpperCase(VerbTyped(submitted)) \notin Registry)
        => out = <<NEWLINE>> \o BadCommand(toUpperCase(VerbTyped(submitted)))
                 \o <<PROMPT>>

\* An unknown verb was submitted with an argument.
C13_Witness ==
    /\ event = <<CR>>
    /\ calls # <<>>
    /\ calls[1].cmd \notin Registry
    /\ calls[1].args # <<>>
    /\ Len(out) = 4


\* What a submission of the line writes, on a console just constructed.
SubmitOut(line) == handleEnter(Fields(line, <<>>, -1, <<>>)).out

\* The line with its verb in upper case and the rest as typed.
UpperVerbLine(line) == toUpperCase(VerbTyped(line)) \o RestTyped(line)

Fresh == Fields(<<>>, <<>>, -1, <<>>)

\* What the handler the registry gives a verb writes.
HandlerOut(verb, args) ==
    CASE verb \in {V_HELP, V_QMARK} -> showHelp(Fresh).out
      [] verb \in {V_LIST, V_DIR} -> listEntries(Fresh).out
      [] verb = V_READ ->
            IF args = <<>>
            THEN << Item("writeln", <<"^[[31mError: Please specify an entry ID.^[[0m">>, <<>>),
                    Item("writeln", <<"Usage: READ <id>">>, <<>>) >>
            ELSE readEntry(Fresh, args[1]).out
      [] verb \in {V_CLEAR, V_CLS} -> clearTerminal(Fresh).out
      [] verb = V_ABOUT -> showAbout(Fresh).out
      [] verb \in {V_EXIT, V_QUIT} ->
            <<Item("writeln", <<"^[[33mTo exit, please refresh the page.^[[0m">>, <<>>)>>

\* C14: for every registered verb or alias, in every spelling of upper and
\* lower case, a submission writes what the upper-case spelling writes and
\* runs the handler of that verb, whatever the case of the arguments.
C14_VerbCaseInsensitive ==
    (/\ event = <<CR>>
     /\ ~Blank(submitted)
     /\ toUpperCase(VerbTyped(submitted)) \in Registry)
        => /\ out = SubmitOut(UpperVerbLine(submitted))
           /\ calls # <<>>
           /\ calls[1].cmd = toUpperCase(VerbTyped(submitted))
           /\ out = <<NEWLINE>>
                    \o HandlerOut(toUpperCase(VerbTyped(submitted)), calls[1].args)
                    \o <<PROMPT>>

\* 'cLeAr' was submitted.
C14_Witness ==
    /\ event = <<CR>>
    /\ submitted = <<99, 76, 101, 65, 114>>
    /\ calls # <<>>
    /\ calls[1].cmd = V_CLEAR


UsageError ==
    << Item("writeln", <<"^[[31mError: Please specify an entry ID.^[[0m">>, <<>>),
       Item("writeln", <<"Usage: READ <id>">>, <<>>) >>

\* C15: submitting READ with no argument, READ followed only by white space
\* included, renders the usage error and looks nothing up in the store.
C15_ReadWithoutArgument ==
    (/\ event = <<CR>>
     /\ toUpperCase(VerbTyped(submitted)) = V_READ
     /\ Blank(RestTyped(submitted)))
        => /\ out = <<NEWLINE>> \o UsageError \o <<PROMPT>>
           /\ lookups = <<>>

\* 'read' followed by two spaces was submitted.
C15_Witness ==
    /\ event = <<CR>>
    /\ submitted = <<114, 101, 97, 100, 32, 32>>
    /\ calls # <<>>
    /\ lookups = <<>>


\* The elements of a sequence that are in a set, in order.
RECURSIVE Keep(_, _)
Keep(seq, set) ==
    IF seq = <<>> THEN <<>>
    ELSE (IF Head(seq) \in set THEN <<Head(seq)>> ELSE <<>>) \o Keep(Tail(seq), set)

Range(seq) == {seq[i] : i \in 1..Len(seq)}

\* The writes of a detail view that render body lines: indented by two.
IsBodyItem(it) == it.op = "writeln" /\ it.text # <<>> /\ it.text[1] = "  "

\* The body a sequence of rendered lines spells, line breaks put back.
RECURSIVE JoinLines(_)
JoinLines(items) ==
    IF items = <<>> THEN <<>>
    ELSE Tail(Head(items).text)
         \o (IF Len(items) > 1 THEN <<"\n">> ELSE <<>>)
         \o JoinLines(Tail(items))

\* Every piece of text an entry of the store holds.
EntryPieces ==
    UNION {{dosPosts[i].title, dosPosts[i].date}
           \cup Range(dosPosts[i].tags)
           \cup (Range(dosPosts[i].content) \ {"\n"}) : i \in 1..Len(dosPosts)}

\* The id typed after the verb.
IdTyped(line) == VerbTyped(RestTyped(line))

Shows(o, text) == Cardinality({i \in 1..Len(o) : o[i].text = text}) = 1

\* C16: READ <id> for an id in the store renders that entry's title, date,
\* tags and every line of its body, in order and none left out; for an id
\* not in the store it renders the not-found message and no field of any
\* entry.
C16_ReadEntry ==
    (/\ event = <<CR>>
     /\ toUpperCase(VerbTyped(submitted)) = V_READ
     /\ ~Blank(RestTyped(submitted)))
        => LET hit == {i \in 1..Len(dosPosts) : dosPosts[i].id = IdTyped(submitted)}
           IN IF hit # {}
              THEN \A i \in hit :
                     /\ Shows(out, <<"^[[36m", dosPosts[i].title, "^[[0m">>)
                     /\ Shows(out, <<"^[[33mDate:^[[0m ", dosPosts[i].date>>)
                     /\ \E k \in 1..Len(out) :
                            /\ out[k].text # <<>>
                            /\ out[k].text[1] = "^[[33mTags:^[[0m "
                            /\ Keep(out[k].text, Range(dosPosts[i].tags))
                                 = dosPosts[i].tags
                     /\ JoinLines(SelectSeq(out, IsBodyItem)) = dosPosts[i].content
              ELSE /\ Len(out) = 4
                   /\ out[2].text = <<"^[[31mEntry not found: ", "${}", "^[[0m">>
                   /\ \A k \in 1..Len(out) :
                          Range(out[k].text) \cap EntryPieces = {}

\* 'READ 3' was submitted and the third entry found.
C16_Witness ==
    /\ event = <<CR>>
    /\ lookups = << <<51>> >>
    /\ Len(out) > 4


\* The writes of a listing that open an entry's block.
IsEntryHead(it) == it.op = "writeln" /\ it.text # <<>> /\ it.text[1] = "  ^[[32m["

IsTotal(it) == it.op = "writeln" /\ it.text # <<>> /\ it.text[1] = "Total: "

\* C17: LIST writes the same in every reachable state, after CLEAR as well:
\* what LIST writes on a console just constructed, one block per entry in
\* the store's order and the total count.
C17_ListUnchanged ==
    (/\ event = <<CR>>
     /\ toUpperCase(VerbTyped(submitted)) \in {V_LIST, V_DIR})
        => /\ out = SubmitOut(V_LIST)
           /\ LET heads == SelectSeq(out, IsEntryHead)
                  totals == SelectSeq(out, IsTotal)
              IN /\ Len(heads) = Len(dosPosts)
                 /\ \A i \in 1..Len(heads) :
                        /\ heads[i].arg = dosPosts[i].id
                        /\ dosPosts[i].title \in Range(heads[i].text)
                 /\ Len(totals) = 1
                 /\ totals[1].arg = <<Len(dosPosts)>>

\* LIST was submitted right after CLEAR (as cls).
C17_Witness ==
    /\ event = <<CR>>
    /\ commandHistory = << <<99, 108, 115>>, <<108, 105, 115, 116>> >>
    /\ calls # <<>>
    /\ calls[1].cmd = V_LIST


\* C18: with n entries and the cursor at c, history-previous with c > 0 ends
\* at c-1 with the buffer History[c-1]; history-next with c < n ends at c+1
\* with the buffer History[c+1] when c+1 < n, and at n with an empty buffer
\* when c+1 = n.  (History[k] of the source is commandHistory[k+1] here.)
C18_RecallFollowsCursor ==
    [][/\ (event' = UP /\ historyIndex > 0)
            => /\ historyIndex' = historyIndex - 1
               /\ currentLine' = commandHistory[historyIndex]
       /\ (event' = DOWN /\ historyIndex < Len(commandHistory)
                         /\ historyIndex + 1 < Len(commandHistory))
            => /\ historyIndex' = historyIndex + 1
               /\ currentLine' = commandHistory[historyIndex + 2]
       /\ (event' = DOWN /\ historyIndex < Len(commandHistory)
                         /\ historyIndex + 1 = Len(commandHistory))
            => /\ historyIndex' = Len(commandHistory)
               /\ currentLine' = <<>>]_vars

\* A history-next moved from the older to the newer of two different entries.
C18_Witness ==
    /\ event = DOWN
    /\ Len(commandHistory) = 2
    /\ commandHistory[1] # commandHistory[2]
    /\ historyIndex = 1
    /\ out # <<>>
    /\ currentLine = commandHistory[2]

\* C19: with no entry selected (cursor at length, or a console that has no
\* history yet) and a non-empty unsubmitted buffer, a history-next event
\* leaves the line buffer and the display as they are.
C19_NextKeepsTypedLine ==
    [][(/\ event' = DOWN
        /\ historyIndex = Len(commandHistory) \/ commandHistory = <<>>
        /\ currentLine # <<>>)
         => /\ currentLine' = currentLine
            /\ out' = <<>>
            /\ screen' = screen]_vars


\* C20: for every payload, payloads of several characters with a printable
\* first character included, every character in the line buffer and in every
\* history entry has a code of 32 or above.
C20_PrintableOnly ==
    /\ \A i \in 1..Len(currentLine) : currentLine[i] >= SPACE
    /\ \A k \in 1..Len(commandHistory) :
           \A i \in 1..Len(commandHistory[k]) : commandHistory[k][i] >= SPACE

====
